---------------------------- MODULE Spec2Model ----------------------------
(***************************************************************************)
(* Model of the menu fetcher of home_dashboard:                            *)
(*   scripts/menu.py          GoogleSheetsMenuParser                       *)
(*   scripts/menu_fetcher.py  get_menu_data, main                          *)
(*                                                                         *)
(* Three specifications share the variables:                               *)
(*   Spec            the command, from main() to its exit                  *)
(*   SpecCandidates  the month list of determine_sheet_for_date, over      *)
(*                   every date of the years in Years                      *)
(*   SpecExtract     the row scan of get_menus_for_dates, over the grids   *)
(*                   of ExtractGrids                                       *)
(*                                                                         *)
(* Text.  A Python string is a sequence of atoms: an atom is a blank       *)
(* (" " or "\t") or a maximal run of non-blank characters ("lundi",        *)
(* "30/06").  '' is << >>.                                                 *)
(***************************************************************************)
EXTENDS Integers, Sequences, FiniteSets, TLC

VARIABLES
    pc,                 \* position of the command
    env,                \* what the credentials file and the libraries are like
    target_dates,       \* menu_fetcher.py: target_dates
    world,              \* the spreadsheet: tab title -> [exists, grid]
    gc,                 \* GoogleSheetsMenuParser.gc is set
    d_idx,              \* index of target_date in the loop of line 153
    months_to_check,    \* determine_sheet_for_date: months_to_check
    c_idx,              \* index of month_num in the loop of line 100
    probe_log,          \* per date, the probes made: [title, outcome]
    resolved,           \* per date, what determine_sheet_for_date returned
    dates_by_worksheet, \* insertion-ordered dict: sequence of [title, dates]
    g_idx,              \* index of the group in the loop of line 169
    group_outcome,      \* per group processed, "ok" or "error"
    all_values,         \* the grid fetched at line 175
    t_idx,              \* index of target_date in the loop of line 178
    i,                  \* row index of the while loop of line 184
    examined,           \* <<date_key, row, column>>: cells the scans tested
    raised,             \* an IndexError was raised by the scan
    menus,              \* the dict menus: date_key -> [midi, soir]
    fetch_log,          \* every get_all_values call: [title, phase]
    stdout,             \* what main printed on standard output
    stderr,             \* what main printed on the error stream
    exit_code           \* the command's exit status, -1 while running

vars == <<pc, env, target_dates, world, gc, d_idx, months_to_check, c_idx,
          probe_log, resolved, dates_by_worksheet, g_idx, group_outcome,
          all_values, t_idx, i, examined, raised, menus, fetch_log,
          stdout, stderr, exit_code>>

---------------------------------------------------------------------------
(* Dates: datetime as [year, month, day].                                  *)

Years == {2024, 2025, 2100}

IsLeap(y) == (y % 4 = 0) /\ ((y % 100 # 0) \/ (y % 400 = 0))

\* datetime's _DAYS_IN_MONTH table and _days_in_month
DaysInMonthTable == <<31, 28, 31, 30, 31, 30, 31, 31, 30, 31, 30, 31>>

PyDaysInMonth(y, m) ==
    IF m = 2 /\ IsLeap(y) THEN 29 ELSE DaysInMonthTable[m]

RECURSIVE DaysBeforeMonth(_, _)
DaysBeforeMonth(y, m) ==
    IF m = 1 THEN 0 ELSE DaysBeforeMonth(y, m - 1) + PyDaysInMonth(y, m - 1)

\* day number in the year of a date, and the date of a day number
DayOfYear(dt) == DaysBeforeMonth(dt.year, dt.month) + dt.day

FromDayOfYear(y, n) ==
    LET m == CHOOSE k \in 1..12 :
                 /\ DaysBeforeMonth(y, k) < n
                 /\ n <= DaysBeforeMonth(y, k) + PyDaysInMonth(y, k)
    IN  [year |-> y, month |-> m, day |-> n - DaysBeforeMonth(y, m)]

\* dt - timedelta(days=1), for a date that is not a 1st of January
MinusOneDay(dt) == FromDayOfYear(dt.year, DayOfYear(dt) - 1)

\* dt + timedelta(days=1)
PlusOneDay(dt) ==
    IF dt.day < PyDaysInMonth(dt.year, dt.month)
    THEN [dt EXCEPT !.day = dt.day + 1]
    ELSE IF dt.month < 12
         THEN [year |-> dt.year, month |-> dt.month + 1, day |-> 1]
         ELSE [year |-> dt.year + 1, month |-> 1, day |-> 1]

AllDates ==
    {dt \in [year : Years, month : 1..12, day : 1..31] :
        dt.day <= PyDaysInMonth(dt.year, dt.month)}

\* strftime: %d and %m are zero-padded to two digits, %Y is four digits
Pad2(n) == IF n < 10 THEN "0" \o ToString(n) ELSE ToString(n)

StrfDayMonth(dt) == Pad2(dt.day) \o "/" \o Pad2(dt.month)

StrfDateKey(dt) ==
    ToString(dt.year) \o "-" \o Pad2(dt.month) \o "-" \o Pad2(dt.day)

---------------------------------------------------------------------------
(* determine_sheet_for_date: the months to check.                          *)

month_names ==
    <<"Janvier", "Fevrier", "Mars", "Avril", "Mai", "Juin", "Juillet",
      "Aout", "Septembre", "Octobre", "Novembre", "Decembre">>

FirstDays == 7

\* faulty variant: January does not wrap to December
PrevMonthNoWrap(target_month) ==
    IF target_month > 1 THEN target_month - 1 ELSE 1

PrevMonth(target_month) ==
    IF target_month > 1 THEN target_month - 1 ELSE 12

LastDays == 7

\* lines 88-94: days_in_month and next_month
DaysInMonth(target_date) ==
    IF target_date.month = 12
    THEN 31
    ELSE MinusOneDay([year  |-> target_date.year,
                      month |-> target_date.month + 1,
                      day   |-> 1]).day

NextMonth(target_month) ==
    IF target_month = 12 THEN 1 ELSE target_month + 1

\* faulty variant: > for >=
NearMonthEndStrict(target_date) ==
    target_date.day > DaysInMonth(target_date) - LastDays

\* line 96
NearMonthEnd(target_date) ==
    target_date.day >= DaysInMonth(target_date) - LastDays

\* lines 76-97
MonthsToCheck(target_date) ==
    LET first  == <<target_date.month>>
        second == IF target_date.day <= FirstDays
                  THEN <<PrevMonth(target_date.month)>> \o first
                  ELSE first
    IN  IF NearMonthEnd(target_date)
        THEN Append(second, NextMonth(target_date.month))
        ELSE second

\* the tab titles of a month list
TabNames(months) == [k \in 1..Len(months) |-> month_names[months[k]]]

---------------------------------------------------------------------------
(* Text: str.strip, str.split(' '), str.lower, `' ' in s`.                 *)

Blanks == {" ", "\t"}

RECURSIVE LStrip(_)
LStrip(s) ==
    IF s # << >> /\ Head(s) \in Blanks THEN LStrip(Tail(s)) ELSE s

RECURSIVE RStrip(_)
RStrip(s) ==
    IF s # << >> /\ s[Len(s)] \in Blanks
    THEN RStrip(SubSeq(s, 1, Len(s) - 1))
    ELSE s

\* s.strip()
Strip(s) == RStrip(LStrip(s))

\* ' ' in s
HasSpace(s) == \E k \in 1..Len(s) : s[k] = " "

\* s.split(' '): the pieces between single spaces, empty pieces kept
RECURSIVE SplitSpace(_)
SplitSpace(s) ==
    IF \A k \in 1..Len(s) : s[k] # " "
    THEN <<s>>
    ELSE LET k == CHOOSE j \in 1..Len(s) :
                      s[j] = " " /\ \A h \in 1..(j - 1) : s[h] # " "
         IN  <<SubSeq(s, 1, k - 1)>> \o SplitSpace(SubSeq(s, k + 1, Len(s)))

\* s.lower(), on the atoms the grids of the model use
LowerAtom(a) ==
    CASE a \in {"Midi", "MIDI", "midi"} -> "midi"
      [] a \in {"Soir", "SOIR", "soir"} -> "soir"
      [] OTHER -> a

Lower(s) == [k \in 1..Len(s) |-> LowerAtom(s[k])]

\* a one-atom string
Str(a) == <<a>>

---------------------------------------------------------------------------
(* The date test of a cell: lines 131-136 and 193-198.                     *)

\* parts[-1] of cell.strip().split(' ')
DatePart(cell) ==
    LET parts == SplitSpace(Strip(cell)) IN parts[Len(parts)]

\* if cell and ' ' in cell: ... if len(parts) >= 2: ... date_part == target
CellHasDate(cell, target_date_str) ==
    /\ cell # << >>
    /\ HasSpace(cell)
    /\ Len(SplitSpace(Strip(cell))) >= 2
    /\ DatePart(cell) = Str(target_date_str)

\* faulty variant: only the rows the scan of line 188 would look at
DateExistsInHeaderRows(values, target_date) ==
    \E r \in 1..Len(values) : \E c \in 1..Len(values[r]) :
        /\ Len(values[r]) > 1
        /\ Strip(values[r][1]) = << >>
        /\ CellHasDate(values[r][c], StrfDayMonth(target_date))

\* date_exists_in_sheet, lines 129-138: every cell of every row
DateExistsInValues(values, target_date) ==
    \E r \in 1..Len(values) : \E c \in 1..Len(values[r]) :
        CellHasDate(values[r][c], StrfDayMonth(target_date))

---------------------------------------------------------------------------
(* The scan of one row: lines 185-225.  Rows and columns are counted from  *)
(* 0, as in the source.                                                    *)

Row(values, r) == values[r + 1]

Cell(row, c) == row[c + 1]

\* line 188: len(row) > 1 and (row[0] == '' or not row[0].strip())
IsHeaderCandidate(row) ==
    /\ Len(row) > 1
    /\ (Cell(row, 0) = << >> \/ Strip(Cell(row, 0)) = << >>)

\* the columns of row[1:] whose cell holds the target date
MatchColumns(row, target_date_str) ==
    {c \in 1..(Len(row) - 1) : CellHasDate(Cell(row, c), target_date_str)}

NoColumn == -1

\* faulty variant: the break of line 218 is missing, the last match wins
LastMatchColumn(row, target_date_str) ==
    LET cols == MatchColumns(row, target_date_str)
    IN  IF cols = {} THEN NoColumn
        ELSE CHOOSE c \in cols : \A other \in cols : other <= c

\* lines 192-218: the loop over the columns stops at the first match (break)
MatchColumn(row, target_date_str) ==
    LET cols == MatchColumns(row, target_date_str)
    IN  IF cols = {} THEN NoColumn
        ELSE CHOOSE c \in cols : \A other \in cols : c <= other

\* the columns the loop of line 192 visits
ScannedColumns(row, target_date_str) ==
    IF MatchColumn(row, target_date_str) = NoColumn
    THEN 1..(Len(row) - 1)
    ELSE 1..MatchColumn(row, target_date_str)

\* faulty variant: the label is compared without lower()
LabelOfNoLower(label_row) == Strip(Cell(label_row, 0))

\* midi_row[0].strip().lower()
LabelOf(label_row) == Lower(Strip(Cell(label_row, 0)))

\* faulty variant: the length of the label row is not tested
LabelShapeUnchecked(label_row, col_idx) == TRUE

\* len(midi_row) > col_idx
LabelShapeOk(label_row, col_idx) == Len(label_row) > col_idx

\* lines 205-209 (offset 1, 'midi') and 212-216 (offset 2, 'soir'): the text
\* taken, or an IndexError where the code would index past a row's end
LabelledText(values, row_idx, offset, col_idx, label) ==
    IF ~(row_idx + offset < Len(values))
    THEN [raised |-> FALSE, text |-> << >>]
    ELSE LET label_row == Row(values, row_idx + offset)
         IN  IF ~LabelShapeOk(label_row, col_idx)
             THEN [raised |-> FALSE, text |-> << >>]
             ELSE IF Len(label_row) = 0
             THEN [raised |-> TRUE, text |-> << >>]
             ELSE IF LabelOf(label_row) # Str(label)
             THEN [raised |-> FALSE, text |-> << >>]
             ELSE IF Len(label_row) <= col_idx
             THEN [raised |-> TRUE, text |-> << >>]
             ELSE [raised |-> FALSE,
                   text   |-> Strip(Cell(label_row, col_idx))]

MidiOffset == 1

SoirOffset == 2

\* one iteration of the while loop of line 184 on row row_idx
ScanOneRow(values, row_idx, target_date_str) ==
    LET row == Row(values, row_idx)
        col == IF IsHeaderCandidate(row)
               THEN MatchColumn(row, target_date_str)
               ELSE NoColumn
        midi == LabelledText(values, row_idx, MidiOffset, col, "midi")
        soir == LabelledText(values, row_idx, SoirOffset, col, "soir")
    IN  [found  |-> col # NoColumn,
         cells  |-> IF IsHeaderCandidate(row)
                    THEN {<<row_idx, c>> :
                             c \in ScannedColumns(row, target_date_str)}
                    ELSE {},
         raised |-> col # NoColumn /\ (midi.raised \/ soir.raised),
         entry  |-> IF col = NoColumn
                    THEN [midi |-> << >>, soir |-> << >>]
                    ELSE [midi |-> midi.text,
                          soir |-> IF midi.raised THEN << >> ELSE soir.text]]

\* menus[date_key] = entry
PutMenu(m, date_key, entry) ==
    [k \in DOMAIN m \cup {date_key} |->
        IF k = date_key THEN entry ELSE m[k]]

---------------------------------------------------------------------------
(* The spreadsheet and the inputs.                                         *)

TabTitles == {month_names[m] : m \in 1..12}

NoTab == [exists |-> FALSE, grid |-> << >>]

Tab(grid) == [exists |-> TRUE, grid |-> grid]

EmptyCell == << >>

\* "lundi 30/06"
DayCell(word, date_str) == <<word, " ", date_str>>

\* a week's sheet: one header row of days, the Midi row, the Soir row
WeekGrid(a, b) ==
    << <<EmptyCell, DayCell("lundi", a), DayCell("mardi", b)>>,
       <<Str("Midi"), Str("Pates"), Str("Riz")>>,
       <<Str("Soir"), Str("Soupe"), Str("Salade")>> >>

\* a sheet that names the date in a title row only
TitleGrid(a) == << <<Str("Semaine"), DayCell("du", a)>> >>

\* a sheet with one day and its lunch
OneDayGrid(a) ==
    << <<EmptyCell, DayCell("lundi", a)>>,
       <<Str("midi"), Str("Riz")>> >>

\* the sheets a tab may hold when the command runs for today = dt
SheetsFor(dt) ==
    LET a == StrfDayMonth(dt)
        b == StrfDayMonth(PlusOneDay(dt))
    IN  {NoTab, Tab(<< >>), Tab(WeekGrid(a, b)), Tab(TitleGrid(a)),
         Tab(OneDayGrid(a)), Tab(OneDayGrid(b))}

\* the dates --date is given in the runs of Spec
MainDates ==
    {[year |-> 2025, month |-> 6,  day |-> 30],
     [year |-> 2025, month |-> 7,  day |-> 15],
     [year |-> 2025, month |-> 12, day |-> 31]}

\* the tabs determine_sheet_for_date may ask for, today and tomorrow
TabsAsked(dt) ==
    {month_names[m] : m \in
        {MonthsToCheck(dt)[k] : k \in 1..Len(MonthsToCheck(dt))}
        \cup {MonthsToCheck(PlusOneDay(dt))[k] :
                 k \in 1..Len(MonthsToCheck(PlusOneDay(dt)))}}

Worlds(dt) ==
    LET asked == TabsAsked(dt)
    IN  {[t \in TabTitles |-> IF t \in asked THEN f[t] ELSE NoTab] :
            f \in [asked -> SheetsFor(dt)]}

\* the spreadsheet is one the command may meet when run for today = dt
IsWorldOf(w, dt) ==
    LET asked == TabsAsked(dt)
        sheets == SheetsFor(dt)
    IN  \A t \in TabTitles :
            IF t \in asked THEN w[t] \in sheets ELSE w[t] = NoTab

Envs == {"no_file", "no_library", "bad_credentials", "ok"}

---------------------------------------------------------------------------
(* main, lines 110-137 of menu_fetcher.py.                                 *)

\* lines 130-137: the error record on stderr, exit status 1
ErrorExit(message) ==
    /\ stderr' = Append(stderr, [error |-> message, success |-> FALSE])
    /\ exit_code' = 1
    /\ pc' = "done"
    /\ UNCHANGED stdout

\* lines 110-125 and get_menu_data lines 40-53
Main ==
    /\ pc = "main"
    /\ \/ /\ env = "no_file"
          /\ ErrorExit("Credentials file not found")
          /\ UNCHANGED target_dates
       \/ /\ env # "no_file"
          /\ \E today \in MainDates :
                /\ IsWorldOf(world, today)
                /\ target_dates' = <<today, PlusOneDay(today)>>
          /\ pc' = "setup"
          /\ UNCHANGED <<stdout, stderr, exit_code>>
    /\ UNCHANGED <<env, world, gc, d_idx, months_to_check, c_idx, probe_log,
                   resolved, dates_by_worksheet, g_idx, group_outcome,
                   all_values, t_idx, i, examined, raised, menus, fetch_log>>

\* setup_connection, lines 25-54
SetupSucceeds == env = "ok"

\* get_menus_for_dates lines 144-150
SetupConnection ==
    /\ pc = "setup"
    /\ \/ /\ ~SetupSucceeds
          /\ pc' = "emit"
          /\ UNCHANGED <<gc, d_idx>>
       \/ /\ SetupSucceeds
          /\ gc' = TRUE
          /\ d_idx' = 1
          /\ pc' = "resolve"
    /\ UNCHANGED <<env, target_dates, world, months_to_check, c_idx,
                   probe_log, resolved, dates_by_worksheet, g_idx,
                   group_outcome, all_values, t_idx, i, examined, raised,
                   menus, fetch_log, stdout, stderr, exit_code>>

---------------------------------------------------------------------------
(* get_menus_for_dates, first loop (lines 153-166), and                    *)
(* determine_sheet_for_date (lines 56-120).                                *)

GroupIndex(groups, title) ==
    IF \E k \in 1..Len(groups) : groups[k].title = title
    THEN CHOOSE k \in 1..Len(groups) : groups[k].title = title
    ELSE 0

\* faulty variant: a new group for every date, line 161 left out
AddToGroupNoDedup(groups, title, date) ==
    Append(groups, [title |-> title, dates |-> <<date>>])

\* lines 160-166
AddToGroup(groups, title, date) ==
    IF GroupIndex(groups, title) = 0
    THEN Append(groups, [title |-> title, dates |-> <<date>>])
    ELSE [groups EXCEPT ![GroupIndex(groups, title)].dates = Append(@, date)]

\* lines 70-98: open the spreadsheet, list the months.  open_by_key is in no
\* try block: when it raises, get_menu_data (line 76) and main (line 130)
\* turn the exception into the error exit
DetermineSheet ==
    /\ pc = "resolve"
    /\ d_idx <= Len(target_dates)
    /\ \/ /\ ErrorExit("Failed to fetch menu data")
          /\ UNCHANGED <<months_to_check, c_idx, probe_log>>
       \/ /\ months_to_check' = MonthsToCheck(target_dates[d_idx])
          /\ c_idx' = 1
          /\ probe_log' = Append(probe_log, << >>)
          /\ pc' = "probe"
          /\ UNCHANGED <<stdout, stderr, exit_code>>
    /\ UNCHANGED <<env, target_dates, world, gc, d_idx, resolved,
                   dates_by_worksheet, g_idx, group_outcome, all_values,
                   t_idx, i, examined, raised, menus, fetch_log>>

\* determine_sheet_for_date returns result (a title, or "None"); lines 156-166
\* group the date, and the loop of line 153 goes on or ends
Resolved(result) ==
    /\ resolved' = Append(resolved, result)
    /\ dates_by_worksheet' =
          IF result = "None"
          THEN dates_by_worksheet
          ELSE AddToGroup(dates_by_worksheet, result, target_dates[d_idx])
    /\ d_idx' = d_idx + 1
    /\ c_idx' = c_idx
    /\ IF d_idx < Len(target_dates)
       THEN pc' = "resolve" /\ g_idx' = g_idx
       ELSE /\ g_idx' = 1
            /\ pc' = IF dates_by_worksheet' = << >> THEN "emit"
                     ELSE "batch_fetch"

\* lines 109-112: continue with the next month, or fall out of the loop
\* (lines 114-120) and return None
Continue ==
    IF c_idx < Len(months_to_check)
    THEN /\ c_idx' = c_idx + 1
         /\ UNCHANGED <<resolved, dates_by_worksheet, d_idx, g_idx, pc>>
    ELSE Resolved("None")

\* the probe of title and how it ended, kept for the properties
Logged(title, outcome) ==
    probe_log' = [probe_log EXCEPT ![d_idx] =
                     Append(@, [title |-> title, outcome |-> outcome])]

\* one iteration of the loop of line 100, with date_exists_in_sheet
Probe ==
    /\ pc = "probe"
    /\ LET title == month_names[months_to_check[c_idx]]
       IN  \/ /\ ~world[title].exists          \* WorksheetNotFound
              /\ Logged(title, "not_found")
              /\ Continue
              /\ UNCHANGED fetch_log
           \/ /\ Logged(title, "worksheet_error")   \* any other exception
              /\ Continue
              /\ UNCHANGED fetch_log
           \/ /\ world[title].exists           \* get_all_values raises
              /\ fetch_log' = Append(fetch_log,
                                     [title |-> title, phase |-> "probe"])
              /\ Logged(title, "fetch_error")
              /\ Continue
           \/ /\ world[title].exists
              /\ fetch_log' = Append(fetch_log,
                                     [title |-> title, phase |-> "probe"])
              /\ IF DateExistsInValues(world[title].grid,
                                       target_dates[d_idx])
                 THEN /\ Logged(title, "match")
                      /\ Resolved(title)
                 ELSE /\ Logged(title, "no_match")
                      /\ Continue
    /\ UNCHANGED <<env, target_dates, world, gc, months_to_check,
                   group_outcome, all_values, t_idx, i, examined, raised,
                   menus, stdout, stderr, exit_code>>

---------------------------------------------------------------------------
(* get_menus_for_dates, second loop (lines 169-230).                       *)

\* the loop of line 169 goes to its next group, or line 230 returns menus
NextGroup ==
    /\ g_idx' = g_idx + 1
    /\ pc' = IF g_idx < Len(dates_by_worksheet) THEN "batch_fetch"
             ELSE "emit"

\* faulty variant: the exception ends the loop of line 169
AbortOnFetchError ==
    /\ g_idx' = g_idx + 1
    /\ pc' = "emit"

\* lines 227-228: the exception is printed, the loop of line 169 goes on
SkipGroup == NextGroup

\* lines 170-175
BatchFetch ==
    /\ pc = "batch_fetch"
    /\ LET title == dates_by_worksheet[g_idx].title
       IN  /\ fetch_log' = Append(fetch_log,
                                  [title |-> title, phase |-> "batch"])
           /\ \/ /\ group_outcome' = Append(group_outcome, "error")
                 /\ SkipGroup
                 /\ UNCHANGED <<all_values, t_idx, i>>
              \/ /\ all_values' = world[title].grid
                 /\ t_idx' = 1
                 /\ i' = 0
                 /\ pc' = "scan"
                 /\ UNCHANGED <<g_idx, group_outcome>>
    /\ UNCHANGED <<env, target_dates, world, gc, d_idx, months_to_check,
                   c_idx, probe_log, resolved, dates_by_worksheet, examined,
                   raised, menus, stdout, stderr, exit_code>>

\* the loop of line 178 goes to its next date, or the group is done
NextDate ==
    IF t_idx < Len(dates_by_worksheet[g_idx].dates)
    THEN /\ t_idx' = t_idx + 1
         /\ i' = 0
         /\ UNCHANGED <<g_idx, group_outcome, pc>>
    ELSE /\ group_outcome' = Append(group_outcome, "ok")
         /\ NextGroup
         /\ UNCHANGED <<t_idx, i>>

\* one iteration of the while loop of line 184
ScanRow ==
    /\ pc = "scan"
    /\ i < Len(all_values)
    /\ LET target_date == dates_by_worksheet[g_idx].dates[t_idx]
           step == ScanOneRow(all_values, i, StrfDayMonth(target_date))
           key == StrfDateKey(target_date)
       IN  /\ examined' = examined \cup
                              {<<key, cell[1], cell[2]>> : cell \in step.cells}
           /\ IF ~step.found
              THEN /\ i' = i + 1
                   /\ UNCHANGED <<menus, raised, t_idx, g_idx,
                                  group_outcome, pc>>
              ELSE /\ menus' = PutMenu(menus, key, step.entry)
                   /\ raised' = (raised \/ step.raised)
                   /\ IF step.raised
                      THEN /\ group_outcome' = Append(group_outcome, "error")
                           /\ SkipGroup
                           /\ UNCHANGED <<t_idx, i>>
                      ELSE NextDate
    /\ UNCHANGED <<env, target_dates, world, gc, d_idx, months_to_check,
                   c_idx, probe_log, resolved, dates_by_worksheet,
                   all_values, fetch_log, stdout, stderr, exit_code>>

\* the while loop of line 184 ends: no row is left
ScanEnd ==
    /\ pc = "scan"
    /\ i >= Len(all_values)
    /\ NextDate
    /\ UNCHANGED <<env, target_dates, world, gc, d_idx, months_to_check,
                   c_idx, probe_log, resolved, dates_by_worksheet,
                   all_values, examined, raised, menus, fetch_log,
                   stdout, stderr, exit_code>>

---------------------------------------------------------------------------
(* get_menu_data lines 58-75 and main line 128.                            *)

\* date.toordinal() and date.weekday()
DaysBeforeYear(y) ==
    (y - 1) * 365 + ((y - 1) \div 4) - ((y - 1) \div 100) + ((y - 1) \div 400)

Weekday(dt) == (DaysBeforeYear(dt.year) + DayOfYear(dt) + 6) % 7

day_names ==
    <<"Monday", "Tuesday", "Wednesday", "Thursday", "Friday", "Saturday",
      "Sunday">>

\* strftime('%A %d/%m/%Y')
StrfLong(dt) ==
    day_names[Weekday(dt) + 1] \o " " \o Pad2(dt.day) \o "/"
        \o Pad2(dt.month) \o "/" \o ToString(dt.year)

\* raw_menus.get(key, {}).get(field, '')
GetMenu(m, date_key, field) ==
    IF date_key \in DOMAIN m THEN m[date_key][field] ELSE << >>

DayRecord(m, dt) ==
    [date |-> StrfLong(dt),
     midi |-> GetMenu(m, StrfDateKey(dt), "midi"),
     soir |-> GetMenu(m, StrfDateKey(dt), "soir")]

Emit ==
    /\ pc = "emit"
    /\ stdout' = Append(stdout, [today    |-> DayRecord(menus, target_dates[1]),
                                 tomorrow |-> DayRecord(menus, target_dates[2])])
    /\ exit_code' = 0
    /\ pc' = "done"
    /\ UNCHANGED <<env, target_dates, world, gc, d_idx, months_to_check,
                   c_idx, probe_log, resolved, dates_by_worksheet, g_idx,
                   group_outcome, all_values, t_idx, i, examined, raised,
                   menus, fetch_log, stderr>>

---------------------------------------------------------------------------
(* The command.                                                            *)

NoMenus == [k \in {} |-> << >>]

Init ==
    /\ pc = "main"
    /\ env \in Envs
    /\ world \in UNION {Worlds(dt) : dt \in MainDates}
    /\ target_dates = << >>
    /\ gc = FALSE
    /\ d_idx = 0
    /\ months_to_check = << >>
    /\ c_idx = 0
    /\ probe_log = << >>
    /\ resolved = << >>
    /\ dates_by_worksheet = << >>
    /\ g_idx = 0
    /\ group_outcome = << >>
    /\ all_values = << >>
    /\ t_idx = 0
    /\ i = 0
    /\ examined = {}
    /\ raised = FALSE
    /\ menus = NoMenus
    /\ fetch_log = << >>
    /\ stdout = << >>
    /\ stderr = << >>
    /\ exit_code = -1

Next ==
    \/ Main
    \/ SetupConnection
    \/ DetermineSheet
    \/ Probe
    \/ BatchFetch
    \/ ScanRow
    \/ ScanEnd
    \/ Emit

Spec == Init /\ [][Next]_vars

---------------------------------------------------------------------------
(* determine_sheet_for_date at line 155, for every date of Years.          *)

NoSheets == [t \in TabTitles |-> NoTab]

InitCandidates ==
    /\ pc = "resolve"
    /\ env = "ok"
    /\ world = NoSheets
    /\ target_dates \in {<<dt, PlusOneDay(dt)>> : dt \in AllDates}
    /\ gc = TRUE
    /\ d_idx = 1
    /\ months_to_check = << >>
    /\ c_idx = 0
    /\ probe_log = << >>
    /\ resolved = << >>
    /\ dates_by_worksheet = << >>
    /\ g_idx = 0
    /\ group_outcome = << >>
    /\ all_values = << >>
    /\ t_idx = 0
    /\ i = 0
    /\ examined = {}
    /\ raised = FALSE
    /\ menus = NoMenus
    /\ fetch_log = << >>
    /\ stdout = << >>
    /\ stderr = << >>
    /\ exit_code = -1

NextCandidates == DetermineSheet

SpecCandidates == InitCandidates /\ [][NextCandidates]_vars

---------------------------------------------------------------------------
(* The scan, from line 175, over the grids a sheet edited by hand may      *)
(* hold: rows of unequal length, empty rows, cells that are no dates.      *)
(* The sheet may have been edited since the probes read it, so the grid    *)
(* fetched at line 175 need not hold the dates the probes found.           *)

MaxRows == 3

ExtractToday == [year |-> 2025, month |-> 6, day |-> 30]

ExtractRows ==
    { << >>,
      <<EmptyCell, DayCell("lundi", "30/06"), DayCell("mardi", "01/07")>>,
      <<Str(" "), Str("30/06"), DayCell("lundi", "30/06")>>,
      <<EmptyCell, DayCell("lundi", "30/06"), DayCell("lundi", "30/06")>>,
      <<Str("Semaine"), DayCell("du", "30/06")>>,
      <<EmptyCell, DayCell("lundi", "30/6"), <<" ", "01/07">> >>,
      <<Str("Midi"), Str("Pates"), Str("Riz")>>,
      << <<" ", "MIDI", "\t">>, <<" ", "Pates", " ", "bolo", " ">> >>,
      <<Str("Soir"), Str("Soupe"), Str("Salade")>>,
      << Str("soir") >>,
      <<Str("Gouter"), Str("Pomme"), Str("Poire")>> }

ExtractGrids == UNION {[1..n -> ExtractRows] : n \in 0..MaxRows}

InitExtract ==
    /\ pc = "scan"
    /\ env = "ok"
    /\ all_values \in ExtractGrids
    /\ world = [NoSheets EXCEPT !["Juin"] = Tab(all_values)]
    /\ target_dates = <<ExtractToday, PlusOneDay(ExtractToday)>>
    /\ gc = TRUE
    /\ d_idx = 3
    /\ months_to_check = MonthsToCheck(target_dates[2])
    /\ c_idx = 1
    /\ probe_log = << <<[title |-> "Juin", outcome |-> "match"]>>,
                      <<[title |-> "Juin", outcome |-> "match"]>> >>
    /\ resolved = <<"Juin", "Juin">>
    /\ dates_by_worksheet = <<[title |-> "Juin", dates |-> target_dates]>>
    /\ g_idx = 1
    /\ group_outcome = << >>
    /\ t_idx = 1
    /\ i = 0
    /\ examined = {}
    /\ raised = FALSE
    /\ menus = NoMenus
    /\ fetch_log = <<[title |-> "Juin", phase |-> "probe"],
                     [title |-> "Juin", phase |-> "probe"],
                     [title |-> "Juin", phase |-> "batch"]>>
    /\ stdout = << >>
    /\ stderr = << >>
    /\ exit_code = -1

NextExtract ==
    \/ ScanRow
    \/ ScanEnd

SpecExtract == InitExtract /\ [][NextExtract]_vars

---------------------------------------------------------------------------
(* The vocabulary of the properties: the sheet as the design describes     *)
(* it, stated without the operators that model the code.                   *)

\* {1 -> "Janvier", ..., 12 -> "Decembre"}
SpecTabName(m) ==
    CASE m = 1 -> "Janvier"   [] m = 2 -> "Fevrier"   [] m = 3 -> "Mars"
      [] m = 4 -> "Avril"     [] m = 5 -> "Mai"       [] m = 6 -> "Juin"
      [] m = 7 -> "Juillet"   [] m = 8 -> "Aout"      [] m = 9 -> "Septembre"
      [] m = 10 -> "Octobre"  [] m = 11 -> "Novembre" [] m = 12 -> "Decembre"

\* the length of a month of the calendar
CalendarLength(y, m) ==
    CASE m \in {4, 6, 9, 11} -> 30
      [] m = 2 -> IF (y % 4 = 0 /\ y % 100 # 0) \/ y % 400 = 0 THEN 29 ELSE 28
      [] OTHER -> 31

\* the date whose tabs are being probed, and their titles
ProbedDate == target_dates[d_idx]

ProbedNames == TabNames(months_to_check)

\* a text without its leading and trailing blanks
Trimmed(s) ==
    LET solid == {k \in 1..Len(s) : s[k] \notin Blanks}
    IN  IF solid = {} THEN << >>
        ELSE SubSeq(s, CHOOSE k \in solid : \A h \in solid : k <= h,
                       CHOOSE k \in solid : \A h \in solid : h <= k)

\* a DateCell for date_str: "<word> <DD/MM>", the token after the last space
IsDateCell(cell, date_str) ==
    LET t == Trimmed(cell)
    IN  Len(t) >= 3 /\ t[Len(t)] = date_str /\ t[Len(t) - 1] = " "

GridHasDateCell(grid, date_str) ==
    \E r \in 1..Len(grid) : \E c \in 1..Len(grid[r]) :
        IsDateCell(grid[r][c], date_str)

\* a row of more than one cell whose column 0 is blank
IsHeaderRow(row) == Len(row) > 1 /\ Trimmed(row[1]) = << >>

\* the DateCells of the header rows, <<row, column>> from 0, column >= 1
Occurrences(grid, date_str) ==
    UNION {{<<r, c>> : c \in {h \in 1..(Len(grid[r + 1]) - 1) :
                                 IsDateCell(grid[r + 1][h + 1], date_str)}} :
           r \in {h \in 0..(Len(grid) - 1) : IsHeaderRow(grid[h + 1])}}

\* reading order: rows top to bottom, columns left to right
Before(a, b) == a[1] < b[1] \/ (a[1] = b[1] /\ a[2] <= b[2])

FirstOccurrence(grid, date_str) ==
    CHOOSE a \in Occurrences(grid, date_str) :
        \A b \in Occurrences(grid, date_str) : Before(a, b)

CaseVariants(label) ==
    IF label = "midi" THEN {"midi", "Midi", "MIDI"}
    ELSE {"soir", "Soir", "SOIR"}

\* row r exists, reaches column c and is labelled (trimmed, any case)
IsLabelled(grid, r, c, label) ==
    /\ r < Len(grid)
    /\ Len(grid[r + 1]) > c
    /\ \E v \in CaseVariants(label) : Trimmed(grid[r + 1][1]) = <<v>>

TextUnder(grid, r, c, label) ==
    IF IsLabelled(grid, r, c, label) THEN Trimmed(grid[r + 1][c + 1])
    ELSE << >>

\* the MenuEntry under the first occurrence of date_str
EntryUnderFirst(grid, date_str) ==
    LET at == FirstOccurrence(grid, date_str)
    IN  [midi |-> TextUnder(grid, at[1] + 1, at[2], "midi"),
         soir |-> TextUnder(grid, at[1] + 2, at[2], "soir")]

\* get_menus_for_dates has returned menus (line 230)
BatchReturned == gc /\ (pc = "emit" \/ (pc = "done" /\ exit_code = 0))

\* the scan of the k-th date of the group being processed is over
ScanOver(k) ==
    /\ g_idx >= 1
    /\ (pc # "scan" \/ t_idx > k)

\* how many get_all_values calls were issued for a tab, in a phase
Fetches(title, phase) ==
    Cardinality({k \in 1..Len(fetch_log) :
                    fetch_log[k] = [title |-> title, phase |-> phase]})

GroupTitles ==
    {dates_by_worksheet[g].title : g \in 1..Len(dates_by_worksheet)}

---------------------------------------------------------------------------
(* Properties of the month list (SpecCandidates).                          *)

---------------------------------------------------------------------------
(* Properties of the scan (SpecExtract).                                   *)

\* the dates of the group being scanned, their keys and DD/MM renderings
ScannedDates == dates_by_worksheet[1].dates

KeyOf(k) == StrfDateKey(ScannedDates[k])

DayMonthOf(k) == StrfDayMonth(ScannedDates[k])

\* both label rows stand under the first occurrence of the k-th date
BothLabelled(k) ==
    /\ Occurrences(all_values, DayMonthOf(k)) # {}
    /\ LET at == FirstOccurrence(all_values, DayMonthOf(k))
       IN  /\ IsLabelled(all_values, at[1] + 1, at[2], "midi")
           /\ IsLabelled(all_values, at[1] + 2, at[2], "soir")

\* C7: when the first DateCell of the target date, in reading order over
\* the header rows, is at row i, column c, and row i+1 is labelled "midi"
\* and row i+2 "soir" (trimmed, any case), both longer than c, the entry
\* is the trimmed cell (i+1, c) and the trimmed cell (i+2, c); the week of
\* 30/06 gives Pates/Soupe for 30/06 and Riz/Salade for 01/07.
C7_LabelledRowsAreRead ==
    /\ \A k \in 1..Len(ScannedDates) :
          (ScanOver(k) /\ BothLabelled(k)) =>
              LET at == FirstOccurrence(all_values, DayMonthOf(k))
              IN  /\ KeyOf(k) \in DOMAIN menus
                  /\ menus[KeyOf(k)].midi =
                        Trimmed(all_values[at[1] + 2][at[2] + 1])
                  /\ menus[KeyOf(k)].soir =
                        Trimmed(all_values[at[1] + 3][at[2] + 1])
    /\ (pc # "scan" /\ all_values = WeekGrid("30/06", "01/07")) =>
          /\ menus["2025-06-30"] = [midi |-> <<"Pates">>, soir |-> <<"Soupe">>]
          /\ menus["2025-07-01"] = [midi |-> <<"Riz">>, soir |-> <<"Salade">>]

\* the second day of the week's grid was read from under its own column,
\* below a "MIDI" label that needs trimming and lowering
C7_Witness ==
    /\ pc # "scan"
    /\ BothLabelled(1)
    /\ Len(all_values) = 3
    /\ all_values[2][1] = <<" ", "MIDI", "\t">>
    /\ menus[KeyOf(1)] = [midi |-> <<"Pates", " ", "bolo">>,
                          soir |-> <<"Soupe">>]

\* C8: the scan never raises, whatever the grid; under the first DateCell
\* of the target date a field is empty when its row is missing, does not
\* reach the column or is not labelled, and the other field is still the
\* trimmed text of its own labelled row.
C8_AbsentRowsGiveEmptyText ==
    /\ ~raised
    /\ \A k \in 1..Len(ScannedDates) :
          (ScanOver(k) /\ Occurrences(all_values, DayMonthOf(k)) # {}) =>
              LET at   == FirstOccurrence(all_values, DayMonthOf(k))
                  midi == IsLabelled(all_values, at[1] + 1, at[2], "midi")
                  soir == IsLabelled(all_values, at[1] + 2, at[2], "soir")
              IN  /\ KeyOf(k) \in DOMAIN menus
                  /\ ~midi => menus[KeyOf(k)].midi = << >>
                  /\ ~soir => menus[KeyOf(k)].soir = << >>
                  /\ (midi /\ ~soir) =>
                        menus[KeyOf(k)].midi =
                            Trimmed(all_values[at[1] + 2][at[2] + 1])
                  /\ (soir /\ ~midi) =>
                        menus[KeyOf(k)].soir =
                            Trimmed(all_values[at[1] + 3][at[2] + 1])

\* a date cell in column 2 above an empty row and a "soir" row of one
\* cell: both fields are empty and nothing was raised
C8_Witness ==
    /\ pc # "scan"
    /\ Len(all_values) = 3
    /\ all_values[2] = << >>
    /\ all_values[3] = << <<"soir">> >>
    /\ Occurrences(all_values, DayMonthOf(1)) # {}
    /\ FirstOccurrence(all_values, DayMonthOf(1))[2] = 2
    /\ menus[KeyOf(1)] = [midi |-> << >>, soir |-> << >>]
    /\ ~raised

\* the cells of the header rows, column >= 1, up to the first occurrence
\* of date_str, or all of them when there is none
CellsToFirst(grid, date_str) ==
    {<<r, c>> \in UNION {{<<h, j>> : j \in 1..(Len(grid[h + 1]) - 1)} :
                            h \in 0..(Len(grid) - 1)} :
        /\ IsHeaderRow(grid[r + 1])
        /\ Occurrences(grid, date_str) # {} =>
              Before(<<r, c>>, FirstOccurrence(grid, date_str))}

ExaminedFor(k) ==
    {<<e[2], e[3]>> : e \in {x \in examined : x[1] = KeyOf(k)}}

\* C10: only the first occurrence of the date, in reading order, is used:
\* no cell after it is ever tested, every header cell up to it is (a row
\* without the date moves the scan one row down), and the entry is the one
\* under the first occurrence, whatever later occurrences stand above.
C10_FirstOccurrenceOnly ==
    \A k \in 1..Len(ScannedDates) :
        /\ ExaminedFor(k) \subseteq CellsToFirst(all_values, DayMonthOf(k))
        /\ ScanOver(k) =>
              /\ ExaminedFor(k) = CellsToFirst(all_values, DayMonthOf(k))
              /\ IF Occurrences(all_values, DayMonthOf(k)) = {}
                 THEN KeyOf(k) \notin DOMAIN menus
                 ELSE /\ KeyOf(k) \in DOMAIN menus
                      /\ menus[KeyOf(k)] =
                            EntryUnderFirst(all_values, DayMonthOf(k))

\* the date stands twice; only the later occurrence has a "Midi" row under
\* it, and the lunch returned is empty
C10_Witness ==
    /\ pc # "scan"
    /\ \E a \in Occurrences(all_values, DayMonthOf(1)) :
          /\ a # FirstOccurrence(all_values, DayMonthOf(1))
          /\ IsLabelled(all_values, a[1] + 1, a[2], "midi")
          /\ ~IsLabelled(all_values,
                         FirstOccurrence(all_values, DayMonthOf(1))[1] + 1,
                         FirstOccurrence(all_values, DayMonthOf(1))[2],
                         "midi")
    /\ KeyOf(1) \in DOMAIN menus
    /\ menus[KeyOf(1)].midi = << >>

---------------------------------------------------------------------------
(* Properties of the command (Spec).                                       *)

\* the group a title names
GroupOf(title) ==
    CHOOSE g \in 1..Len(dates_by_worksheet) :
        dates_by_worksheet[g].title = title

\* C1, as claimed: when get_menus_for_dates has returned, every tab that
\* dates resolved to was fetched exactly once in the whole call, the
\* resolution probes counted with the extraction phase.
C1_OneFetchPerTabInAll ==
    BatchReturned =>
        \A title \in GroupTitles :
            Fetches(title, "probe") + Fetches(title, "batch") = 1

\* C1, amended: the extraction phase fetches every tab that dates resolved
\* to exactly once, however many dates map to it, and no other tab; each
\* date that resolved to the tab has fetched it once more while probing.
C1_OneFetchPerTabInExtraction ==
    BatchReturned =>
        \A title \in TabTitles :
            IF title \in GroupTitles
            THEN /\ Fetches(title, "batch") = 1
                 /\ Fetches(title, "probe") >=
                       Len(dates_by_worksheet[GroupOf(title)].dates)
            ELSE Fetches(title, "batch") = 0

\* two dates resolved to one tab: one fetch in the extraction phase, three
\* in all
C1_Witness ==
    /\ BatchReturned
    /\ Len(dates_by_worksheet) = 1
    /\ Len(dates_by_worksheet[1].dates) = 2
    /\ Fetches(dates_by_worksheet[1].title, "batch") = 1
    /\ Fetches(dates_by_worksheet[1].title, "probe") = 2

\* setup_connection ran and returned False
SetupFailed == pc \in {"emit", "done"} /\ ~gc /\ env # "no_file"

\* C2: when setup_connection fails, the command writes one error record
\* with success = false on the error stream, ends with a non-zero status
\* and never prints a today/tomorrow record on standard output.
C2_SetupFailureIsAnError ==
    (SetupFailed /\ pc = "done") =>
        /\ Len(stderr) = 1
        /\ stderr[1].success = FALSE
        /\ exit_code # 0
        /\ stdout = << >>

\* the outcome of the extraction-phase fetch of the tab a date resolved to
FetchedOk(k) ==
    /\ resolved[k] # "None"
    /\ group_outcome[GroupOf(resolved[k])] = "ok"

\* C3: when get_menus_for_dates has returned, a requested date is a key of
\* the result exactly when it resolved to a tab and the extraction-phase
\* fetch of that tab did not fail.
C3_KeysAreTheResolvedDates ==
    BatchReturned =>
        \A k \in 1..Len(target_dates) :
            (StrfDateKey(target_dates[k]) \in DOMAIN menus) <=> FetchedOk(k)

\* the probe of the j-th candidate of the k-th date fetched the grid and the
\* grid holds a DateCell of the date
ProbeHit(k, j) ==
    /\ probe_log[k][j].outcome \in {"match", "no_match"}
    /\ GridHasDateCell(world[probe_log[k][j].title].grid,
                       StrfDayMonth(target_dates[k]))

\* C4: the candidates are probed in their order; the result is the first
\* candidate whose grid was fetched and holds a DateCell of the target
\* date; a candidate whose tab is missing or whose fetch fails is skipped
\* and the next one is probed; when none matches the result is None, and
\* probing raises nothing.
C4_FirstMatchingCandidate ==
    /\ \A k \in 1..Len(probe_log) :
          LET names == TabNames(MonthsToCheck(target_dates[k]))
              log   == probe_log[k]
          IN  /\ Len(log) <= Len(names)
              /\ \A j \in 1..Len(log) : log[j].title = names[j]
              /\ \A j \in 1..(Len(log) - 1) : ~ProbeHit(k, j)
              /\ k <= Len(resolved) =>
                    IF ProbeHit(k, Len(log))
                    THEN resolved[k] = names[Len(log)]
                    ELSE resolved[k] = "None" /\ Len(log) = Len(names)
    /\ exit_code = 1 => Len(probe_log) = Len(resolved)

\* the first candidate was missing or failed to load, the second was
\* probed and returned
C4_Witness ==
    \E k \in 1..Len(resolved) :
        /\ Len(probe_log[k]) = 2
        /\ probe_log[k][1].outcome \in {"not_found", "fetch_error"}
        /\ probe_log[k][2].outcome = "match"
        /\ resolved[k] = TabNames(MonthsToCheck(target_dates[k]))[2]

\* C9: a fetch error for one group does not abort the batch: every group
\* is fetched, the dates of a failed group are no keys of the result, the
\* other groups' entries are what their grids hold, and the call returns
\* without raising.
C9_FetchErrorSkipsOneGroup ==
    /\ BatchReturned =>
          /\ Len(group_outcome) = Len(dates_by_worksheet)
          /\ \A g \in 1..Len(dates_by_worksheet) :
                LET group == dates_by_worksheet[g]
                    grid  == world[group.title].grid
                IN  /\ Fetches(group.title, "batch") = 1
                    /\ \A k \in 1..Len(group.dates) :
                          LET key == StrfDateKey(group.dates[k])
                              dm  == StrfDayMonth(group.dates[k])
                          IN  IF group_outcome[g] = "error"
                                 \/ Occurrences(grid, dm) = {}
                              THEN key \notin DOMAIN menus
                              ELSE /\ key \in DOMAIN menus
                                   /\ menus[key] = EntryUnderFirst(grid, dm)
    /\ exit_code = 1 =>
          \A k \in 1..Len(fetch_log) : fetch_log[k].phase # "batch"

\* the fetch of the first group failed, the second group was still fetched
\* and its date is in the result
C9_Witness ==
    /\ BatchReturned
    /\ group_outcome = <<"error", "ok">>
    /\ StrfDateKey(dates_by_worksheet[1].dates[1]) \notin DOMAIN menus
    /\ StrfDateKey(dates_by_worksheet[2].dates[1]) \in DOMAIN menus

=============================================================================
